---- MODULE Spec2Model ----
(***************************************************************************)
(* Model of skills/project-planning/MSProject_rev2.py: the Tasks object    *)
(* over the task rows of an open project (Project.Tasks), its full scan    *)
(* getTasks and the outline-range resolvers findRange / findSubRange.      *)
(*                                                                         *)
(* Text is modelled by TLA+ strings; a Python dict by a function whose     *)
(* domain is its key set; None rows of the project (blank lines) by the    *)
(* value Blank.                                                            *)
(***************************************************************************)
EXTENDS Integers, Sequences, FiniteSets, TLC

VARIABLES
    Project,        \* Project.Tasks: the rows Item(1) .. Item(Count)
    parsed,         \* FALSE while _Tasks, _RFQAs, _compoundTask, _unknowns are None
    _Tasks,         \* Tasks._Tasks
    _RFQAs,         \* Tasks._RFQAs
    _compoundTask,  \* Tasks._compoundTask
    _unknowns,      \* Tasks._unknowns
    ret,            \* the last call: its name, arguments and outcome
    MSProject,      \* the MSProject instance: Project and _Tasks, each the
                    \* project it refers to or "None"
    mpp             \* the application: its active project and the number
                    \* of projects it has made with FileNew

vars == <<Project, parsed, _Tasks, _RFQAs, _compoundTask, _unknowns, ret,
          MSProject, mpp>>

\* Number of rows of the projects that are scanned by getTasks.
MaxRecords == 3

\* Number of rows of the outlined projects.
MaxOutlineRows == 4

\* The most lines of a project that is written back to.
MaxWriteRecords == 2

\* The most lines of a project with analysis items.
MaxTreeRows == 5

\* The most outline levels of its lines.
MaxDepth == 3

\* The most lines of a project whose tasks are looked up by S/N.
MaxSerialRecords == 2

----------------------------------------------------------------------------
(* Python text and container helpers                                       *)

Min(a, b) == IF a < b THEN a ELSE b

\* s[0:n]
Slice(s, n) == SubSeq(s, 1, Min(n, Len(s)))

\* d[k] = v
DictSet(d, k, v) == (k :> v) @@ d

EmptyDict == <<>>

\* l.append(x)
Append2(l, x) == l \o <<x>>

\* the elements of a list
Elems(l) == {l[n] : n \in 1..Len(l)}

\* l.count(x)
Count(l, x) == Cardinality({n \in 1..Len(l) : l[n] = x})

\* The index of the first sep in s at or after position n, or 0.
RECURSIVE IndexFrom(_, _, _)
IndexFrom(s, sep, n) ==
    IF n > Len(s) THEN 0
    ELSE IF SubSeq(s, n, n) = sep THEN n
    ELSE IndexFrom(s, sep, n + 1)

\* s.split(sep): at least one token, empty tokens kept.
RECURSIVE Split(_, _)
Split(s, sep) ==
    LET k == IndexFrom(s, sep, 1)
    IN  IF k = 0 THEN <<s>>
        ELSE <<SubSeq(s, 1, k - 1)>> \o Split(SubSeq(s, k + 1, Len(s)), sep)

\* c.lower() of one character, for the letters the flag column uses.
LowerChar(c) ==
    CASE c = "I" -> "i"
      [] c = "G" -> "g"
      [] c = "N" -> "n"
      [] c = "O" -> "o"
      [] c = "R" -> "r"
      [] c = "E" -> "e"
      [] OTHER -> c

\* s.lower()
RECURSIVE Lower(_)
Lower(s) ==
    IF Len(s) = 0 THEN ""
    ELSE LowerChar(SubSeq(s, 1, 1)) \o Lower(SubSeq(s, 2, Len(s)))

\* str(s.encode('ascii', 'ignore')): the repr of the bytes object (the text
\* of this model is ASCII, so no character is dropped).
AsciiStr(s) == "b'" \o s \o "'"

----------------------------------------------------------------------------
(* The rows of the project                                                 *)

\* Tasks.Item(i) of a blank line is None.
Blank == [None |-> TRUE]

\* Start and Finish are dates in minutes; NA stands for the text "NA" of a
\* task without a date, which has no Format method.
NA == -1

\* A percent-complete value int() cannot convert.
BadPercent == -1

TasksCount == Len(Project)

Item(i) == Project[i]

\* if self.Project.Tasks.Item(i):
IsTask(i) == Item(i) # Blank

\* proj2time: the date formatted to the second and parsed back to seconds
\* since the Epoch (dates are whole minutes inside the window where the
\* two-digit year is unambiguous).
SecondsPerMinute == 60

proj2time(t) == t * SecondsPerMinute

----------------------------------------------------------------------------
(* findRange / findSubRange                                                *)

\* The first loop of findRange: the first row from startID on whose Name or
\* Text1 equals taskName, or 0 (parentID stays None).
RECURSIVE FindParent(_, _)
FindParent(taskName, i) ==
    IF i > TasksCount THEN 0
    ELSE IF IsTask(i) /\ (Item(i).Name = taskName \/ Item(i).Text1 = taskName)
         THEN i
         ELSE FindParent(taskName, i + 1)

\* ScanEnd stopping at a None row as at a row that lacks the prefix.
RECURSIVE ScanEnd_BlankBreaks(_, _, _)
ScanEnd_BlankBreaks(parentLevel, i, endID) ==
    IF i > TasksCount THEN endID
    ELSE IF ~IsTask(i) THEN endID
    ELSE IF Slice(Item(i).OutlineNumber, Len(parentLevel)) = parentLevel
         THEN ScanEnd_BlankBreaks(parentLevel, i + 1, i)
         ELSE endID

\* ScanEnd going on after the first row that lacks the prefix.
RECURSIVE ScanEnd_NoBreak(_, _, _)
ScanEnd_NoBreak(parentLevel, i, endID) ==
    IF i > TasksCount THEN endID
    ELSE IF ~IsTask(i) THEN ScanEnd_NoBreak(parentLevel, i + 1, endID)
    ELSE IF Slice(Item(i).OutlineNumber, Len(parentLevel)) = parentLevel
         THEN ScanEnd_NoBreak(parentLevel, i + 1, i)
         ELSE ScanEnd_NoBreak(parentLevel, i + 1, endID)

\* The second loop: endID moves to every row whose OutlineNumber starts with
\* parentLevel; a None row is passed over; the first other row ends the loop.
RECURSIVE ScanEnd(_, _, _)
ScanEnd(parentLevel, i, endID) ==
    IF i > TasksCount THEN endID
    ELSE IF ~IsTask(i) THEN ScanEnd(parentLevel, i + 1, endID)
    ELSE IF Slice(Item(i).OutlineNumber, Len(parentLevel)) = parentLevel
         THEN ScanEnd(parentLevel, i + 1, i)
         ELSE endID

\* SubRangeOf starting the range at the parent row itself.
SubRangeOf_FromParent(parentID) ==
    <<parentID,
      ScanEnd(Item(parentID).OutlineNumber \o ".", parentID + 1, parentID)>>

\* The range returned for the parent row parentID.
SubRangeOf(parentID) ==
    LET parentLevel == Item(parentID).OutlineNumber \o "."
        startID == parentID + 1
        endID == ScanEnd(parentLevel, startID, parentID)
    IN  IF endID < startID THEN <<parentID, endID>> ELSE <<startID, endID>>

Returned(v) == [kind |-> "return", val |-> v]

Raised(e) == [kind |-> "raise", val |-> e]

\* findRange looking for the row from the top of the project, whatever
\* startID is.
findRange_FromTop(taskName, startID) ==
    IF FindParent(taskName, 1) = 0 THEN Raised("AttributeError")
    ELSE Returned(SubRangeOf(FindParent(taskName, 1)))

\* findRange returning a default range when no row matches.
findRange_Default(taskName, startID) ==
    IF FindParent(taskName, startID) = 0 THEN Returned(<<startID, startID>>)
    ELSE Returned(SubRangeOf(FindParent(taskName, startID)))

findRange(taskName, startID) ==
    LET parentID == FindParent(taskName, startID)
    IN  IF parentID = 0 THEN Raised("AttributeError")
        ELSE Returned(SubRangeOf(parentID))

findSubRange(taskID) ==
    IF ~IsTask(taskID) THEN Raised("AttributeError")
    ELSE Returned(SubRangeOf(taskID))

----------------------------------------------------------------------------
(* getTasks                                                                *)

\* int(x) of a percent-complete value raises ValueError on BadPercent.
IntRaises(x) == x = BadPercent

\* proj2time(x) raises AttributeError on NA (a str has no Format).
TimeRaises(x) == x = NA

\* for resr in ResourceNames.split(','): if str(resr) not in Resources:
\*     Resources.append(str(resr.encode('ascii', 'ignore')))
RECURSIVE MergeResources(_, _, _)
MergeResources(Resources, names, n) ==
    IF n > Len(names) THEN Resources
    ELSE MergeResources(
            IF names[n] \notin Elems(Resources)
                THEN Append2(Resources, AsciiStr(names[n]))
                ELSE Resources,
            names, n + 1)

\* Lines 610-628: the entry of a new task S/N, before its first percent value.
NewTask(t, i) ==
    LET names == Split(t.ResourceNames, ",")
    IN  [Name |-> AsciiStr(t.Name),
         Priority |-> AsciiStr(t.Text2),
         ReleaseName |-> AsciiStr(t.Text3),
         QCDB |-> AsciiStr(t.Text5),
         QCRelease |-> AsciiStr(t.Text6),
         Resources |-> [n \in 1..Len(names) |-> AsciiStr(names[n])],
         id |-> <<i>>,
         outline |-> <<t.OutlineNumber>>,
         Start |-> proj2time(t.Start),
         Finish |-> proj2time(t.Finish),
         PercentWorkCompleteList |-> <<>>]

\* MinStart keeping the start of the first row seen.
MinStart_FirstSeen(e, start) == e

\* if e['Start'] > start: e['Start'] = start
MinStart(e, start) == IF e.Start > start THEN [e EXCEPT !.Start = start] ELSE e

\* if e['Finish'] < finish: e['Finish'] = finish
MaxFinish(e, finish) ==
    IF e.Finish < finish THEN [e EXCEPT !.Finish = finish] ELSE e

\* Lines 632-640: an existing task S/N takes the row's resources and dates.
MergeDates(e, t) ==
    MaxFinish(
        MinStart(
            [e EXCEPT !.Resources =
                MergeResources(@, Split(t.ResourceNames, ","), 1)],
            proj2time(t.Start)),
        proj2time(t.Finish))

\* if e['id'].count(i) == 0: e['id'].append(i)
AddId(e, i) == IF Count(e.id, i) = 0 THEN [e EXCEPT !.id = Append2(@, i)] ELSE e

\* if e['outline'].count(o) == 0: e['outline'].append(o)
AddOutline(e, o) ==
    IF Count(e.outline, o) = 0 THEN [e EXCEPT !.outline = Append2(@, o)] ELSE e

\* Lines 643-648: the row's id and outline number, once each.
MergeIds(e, t, i) == AddOutline(AddId(e, i), t.OutlineNumber)

\* e['PercentWorkCompleteList'].append(int(pct))
AddPercent(e, pct) == [e EXCEPT !.PercentWorkCompleteList = Append2(@, pct)]

\* The entry of sn as it stands when int() is reached (line 629 or 641).
BeforePercent(st, t, i, sn) ==
    IF sn \notin DOMAIN st.T THEN NewTask(t, i) ELSE MergeDates(st.T[sn], t)

\* The entry of sn after the whole branch.
AfterPercent(st, t, i, sn) ==
    IF sn \notin DOMAIN st.T
        THEN AddPercent(NewTask(t, i), t.PercentWorkComplete)
        ELSE MergeIds(AddPercent(MergeDates(st.T[sn], t),
                                 t.PercentWorkComplete), t, i)

\* Lines 608-648: the row i is a task of S/N sn. exc names the exception
\* that left the statements, "" when none did.
TaskBranch(st, t, i, sn) ==
    IF IntRaises(t.PercentWorkComplete)
        THEN [st EXCEPT !.task = TRUE, !.T = DictSet(@, sn, BeforePercent(st, t, i, sn)),
                        !.exc = "ValueError"]
        ELSE [st EXCEPT !.task = TRUE, !.T = DictSet(@, sn, AfterPercent(st, t, i, sn))]

\* Line 657: the entry of sn, created when new, takes the row's name.
RFQANamed(R, sn, t) ==
    DictSet(IF sn \notin DOMAIN R THEN EmptyDict ELSE R[sn],
            "Name", AsciiStr(t.Name))

\* Lines 660-664: the finish date and the tags of the row, and a fresh id
\* list holding the row's id alone.
RFQAFilled(r, t, i) ==
    DictSet(DictSet(DictSet(DictSet(r,
        "Finish", proj2time(t.Finish)),
        "Priority", AsciiStr(t.Text2)),
        "ReleaseName", AsciiStr(t.Text3)),
        "id", Append2(<<>>, i))

\* Lines 653-664: the row i is an RFQA item of S/N sn.
RFQABranch(st, t, i, sn) ==
    IF TimeRaises(t.Start)
        THEN [st EXCEPT !.rfqa = TRUE, !.exc = "AttributeError",
                        !.R = DictSet(@, sn, RFQANamed(st.R, sn, t))]
    ELSE IF TimeRaises(t.Finish)
        THEN [st EXCEPT !.rfqa = TRUE, !.exc = "AttributeError",
                        !.R = DictSet(@, sn,
                                DictSet(RFQANamed(st.R, sn, t),
                                        "Start", proj2time(t.Start)))]
    ELSE [st EXCEPT !.rfqa = TRUE,
                    !.R = DictSet(@, sn,
                            RFQAFilled(
                                DictSet(RFQANamed(st.R, sn, t),
                                        "Start", proj2time(t.Start)),
                                t, i))]

\* SerialStep taking a row with a resource and no duration as an RFQA
\* candidate as well.
SerialStep_DurationElse(st, t, i, sn) ==
    IF t.ResourceNames # "" /\ proj2time(t.Finish) - proj2time(t.Start) > 0
        THEN TaskBranch(st, t, i, sn)
    ELSE IF t.PredecessorTasksCount = 0 /\ t.OutlineChildrenCount = 0
        THEN RFQABranch(st, t, i, sn)
    ELSE st

\* Lines 603-664: the body of "for s in sns" for one serial number.
SerialStep(st, t, i, sn) ==
    IF t.ResourceNames # ""
    THEN IF TimeRaises(t.Finish) \/ TimeRaises(t.Start)
            THEN [st EXCEPT !.exc = "AttributeError"]
         ELSE IF proj2time(t.Finish) - proj2time(t.Start) > 0
            THEN TaskBranch(st, t, i, sn)
         ELSE st
    ELSE IF t.PredecessorTasksCount = 0
        THEN IF t.OutlineChildrenCount = 0
                THEN RFQABranch(st, t, i, sn)
                ELSE st
        ELSE st

\* SerialLoop handling the first serial number of the field only.
SerialLoop_FirstOnly(st, t, i, sns, n) ==
    IF n > 1 \/ st.exc # "" THEN st ELSE SerialStep(st, t, i, sns[1])

\* for s in sns: an exception leaves the loop.
RECURSIVE SerialLoop(_, _, _, _, _)
SerialLoop(st, t, i, sns, n) ==
    IF n > Len(sns) \/ st.exc # "" THEN st
    ELSE SerialLoop(SerialStep(st, t, i, sns[n]), t, i, sns, n + 1)

\* dict[key].append(i), the list created with its first element.
ListAdd(d, key, i) ==
    DictSet(d, key, Append2(IF key \in DOMAIN d THEN d[key] ELSE <<>>, i))

\* Lines 665-668: a line with several S/Ns is listed under its whole field.
WithCompound(st, SN, sns, i) ==
    IF Len(sns) > 1 THEN [st EXCEPT !.C = ListAdd(@, SN, i)] ELSE st

\* WithUnknown listing every line that was not handled as a task.
WithUnknown_NotTask(st, SN, i) ==
    IF ~st.task THEN [st EXCEPT !.U = ListAdd(@, SN, i)] ELSE st

\* Lines 669-672: a line that was neither task nor RFQA is listed as unknown.
WithUnknown(st, SN, i) ==
    IF ~st.task /\ ~st.rfqa THEN [st EXCEPT !.U = ListAdd(@, SN, i)] ELSE st

\* Lines 665-674, reached with the state the loop over the S/Ns left: the
\* inner handler swallows an AttributeError and goes on to the next row;
\* any other exception reaches the outer handler.
AfterSerials(st, SN, sns, i) ==
    IF st.exc = "AttributeError" THEN [st EXCEPT !.exc = ""]
    ELSE IF st.exc # "" THEN st
    ELSE WithUnknown(WithCompound(st, SN, sns, i), SN, i)

\* Lines 587-674: the body of "for i in range(1, Count + 1)" for the row
\* t = Item(i). Text4 of a None row raises AttributeError before anything
\* is done.
RowStep(st, t, i) ==
    IF t = Blank THEN st
    ELSE IF Lower(t.Text4) = "ignore" THEN st
    ELSE IF t.Text1 = "" THEN st
    ELSE AfterSerials(
            SerialLoop([st EXCEPT !.task = FALSE, !.rfqa = FALSE],
                       t, i, Split(t.Text1, ","), 1),
            t.Text1, Split(t.Text1, ","), i)

\* for i in range(1, Count + 1) over the rows of a project, left by the
\* first exception that is not an AttributeError.
RECURSIVE RowLoop(_, _, _)
RowLoop(st, rows, i) ==
    IF i > Len(rows) \/ st.exc # "" THEN st
    ELSE RowLoop(RowStep(st, rows[i], i), rows, i + 1)

RECURSIVE SumList(_)
SumList(l) == IF Len(l) = 0 THEN 0 ELSE l[1] + SumList(Tail(l))

\* Average rounding up.
Average_RoundUp(l) == (SumList(l) + Len(l) - 1) \div Len(l)

\* int(tot / len(l)) of non-negative integers.
Average(l) == SumList(l) \div Len(l)

\* Lines 676-681: the average percent-complete of every task S/N.
WithAverages(T) ==
    [sn \in DOMAIN T |->
        DictSet(T[sn], "PercentWorkComplete",
                Average(T[sn].PercentWorkCompleteList))]

\* ScanStart going on from the dicts of the call before.
ScanStart_Keep ==
    [T |-> _Tasks, R |-> _RFQAs, C |-> _compoundTask, U |-> _unknowns,
     task |-> FALSE, rfqa |-> FALSE, exc |-> ""]

\* Lines 577-580: the four dicts start empty on every call.
ScanStart ==
    [T |-> EmptyDict, R |-> EmptyDict, C |-> EmptyDict, U |-> EmptyDict,
     task |-> FALSE, rfqa |-> FALSE, exc |-> ""]

\* Lines 675-689: the averages, unless the outer handler caught an
\* exception (it prints the error and returns the dicts as they are).
Finished(st) == IF st.exc # "" THEN st ELSE [st EXCEPT !.T = WithAverages(@)]

\* The state of the scan of the rows of a project when getTasks returns.
ScanOf(rows) == Finished(RowLoop(ScanStart, rows, 1))

ScanResult == ScanOf(Project)

\* Store keeping the entries of the dicts in place that the scan did not
\* write again.
Store_KeepOld(st) ==
    /\ parsed' = TRUE
    /\ _Tasks' = st.T @@ _Tasks
    /\ _RFQAs' = st.R @@ _RFQAs
    /\ _compoundTask' = st.C @@ _compoundTask
    /\ _unknowns' = st.U @@ _unknowns
    /\ ret' = [op |-> "getTasks", args |-> <<>>, kind |-> "return",
               val |-> "_Tasks", error |-> st.exc]

Store(st) ==
    /\ parsed' = TRUE
    /\ _Tasks' = st.T
    /\ _RFQAs' = st.R
    /\ _compoundTask' = st.C
    /\ _unknowns' = st.U
    /\ ret' = [op |-> "getTasks", args |-> <<>>, kind |-> "return",
               val |-> "_Tasks", error |-> st.exc]

getTasks == Store(ScanResult) /\ UNCHANGED <<Project, MSProject, mpp>>

----------------------------------------------------------------------------
(* The projects the scans are run on                                       *)

\* The row of a task line. Name, priority and outline number follow the
\* line number: a flat list of tasks "1", "2", ...
TaskRow(i, v) ==
    [Name |-> "T" \o ToString(i),
     Text1 |-> v.sn,
     Text2 |-> "P" \o ToString(i),
     Text3 |-> "R1",
     Text4 |-> v.py,
     Text5 |-> "",
     Text6 |-> "",
     ResourceNames |-> v.res,
     Start |-> v.start,
     Finish |-> v.finish,
     PercentWorkComplete |-> v.pct,
     OutlineNumber |-> ToString(i),
     PredecessorTasksCount |-> v.preds,
     OutlineChildrenCount |-> v.children,
     Work |-> 0,
     ActualWork |-> 0]

Variant(py, sn, res, start, finish, pct, preds, children) ==
    [py |-> py, sn |-> sn, res |-> res, start |-> start, finish |-> finish,
     pct |-> pct, preds |-> preds, children |-> children]

SerialFields == {"A", "A,B"}

\* Lines with a resource: two spans of positive duration and one of none.
ResourceVariants ==
    {Variant("", sn, res, d[1], d[2], d[3], 0, 0) :
        sn \in SerialFields, res \in {"bob", "bob,carl"},
        d \in {<<10, 20, 40>>, <<5, 25, 61>>, <<10, 10, 40>>}}

\* Lines without a resource: with or without predecessors and children.
NoResourceVariants ==
    {Variant("", sn, "", 10, d, 0, pc[1], pc[2]) :
        sn \in SerialFields, d \in {10, 20},
        pc \in {<<0, 0>>, <<1, 0>>, <<0, 1>>}}

\* A line flagged to be ignored and a line without S/N, both tasks otherwise.
SkippedVariants ==
    {Variant("Ignore", "A", "bob", 10, 20, 40, 0, 0),
     Variant("", "", "bob", 10, 20, 40, 0, 0)}

Variants == ResourceVariants \cup NoResourceVariants \cup SkippedVariants

\* Lines with a value getTasks cannot convert.
MalformedVariants ==
    {Variant("", "A", "bob", 10, 20, BadPercent, 0, 0),
     Variant("", "A", "", NA, 20, 0, 0, 0),
     Variant("", "A,B", "", 10, NA, 0, 0, 0),
     Variant("", "A", "bob", 10, NA, 40, 0, 0)}

\* The project whose line i is the task line of c[i], or blank.
Lines(c) ==
    [i \in 1..Len(c) |-> IF c[i] = Blank THEN Blank ELSE TaskRow(i, c[i])]

\* Project is one of the projects of at most MaxRecords lines, each a task
\* line of vs or blank.
OpenProject(vs) ==
    \E n \in 1..MaxRecords :
        \E c \in [1..n -> vs \cup {Blank}] : Project = Lines(c)

\* A line of an outlined project: its name, S/N and outline number.
OutlineRow(name, sn, outline) ==
    [Name |-> name,
     Text1 |-> sn,
     Text2 |-> "",
     Text3 |-> "",
     Text4 |-> "",
     Text5 |-> "",
     Text6 |-> "",
     ResourceNames |-> "",
     Start |-> 10,
     Finish |-> 20,
     PercentWorkComplete |-> 0,
     OutlineNumber |-> outline,
     PredecessorTasksCount |-> 0,
     OutlineChildrenCount |-> 0,
     Work |-> 0,
     ActualWork |-> 0]

\* The outline numbers of a task, of a subtask of it, of the next task, and
\* of a task whose number only starts with the same digit.
OutlineNumbers == {"1", "1.1", "2"}

\* Rows named K, rows with S/N K and rows that are neither.
OutlineRows ==
    {OutlineRow(k[1], k[2], o) :
        k \in {<<"K", "">>, <<"X", "K">>, <<"X", "">>}, o \in OutlineNumbers}
    \cup {OutlineRow("X", "", "11")}

OpenOutlinedProject ==
    \E n \in 1..MaxOutlineRows : Project \in [1..n -> OutlineRows \cup {Blank}]

\* The name or S/N looked up.
Keys == {"K"}

NoCall == [op |-> "", args |-> <<>>, kind |-> "", val |-> "", error |-> ""]

\* Tasks.__init__: the four dicts are None.
InitTasks ==
    /\ parsed = FALSE
    /\ _Tasks = EmptyDict
    /\ _RFQAs = EmptyDict
    /\ _compoundTask = EmptyDict
    /\ _unknowns = EmptyDict
    /\ ret = NoCall

\* MSProject after load of a file and the first access to Tasks: the Tasks
\* object is made over the project that was opened.
Loaded ==
    /\ MSProject = [Project |-> "plan.mpp", _Tasks |-> "plan.mpp"]
    /\ mpp = [ActiveProject |-> "plan.mpp", Created |-> 0]

Init == OpenProject(Variants) /\ InitTasks /\ Loaded

InitMalformed ==
    OpenProject(Variants \cup MalformedVariants) /\ InitTasks /\ Loaded

InitRange == OpenOutlinedProject /\ InitTasks /\ Loaded

\* The lines of the projects with compound S/N fields: the lines of Variants
\* that are not skipped, with one resource or none, the first span of each
\* duration, and no children.
CompoundVariants ==
    {v \in Variants :
        /\ v.py = "" /\ v.sn # ""
        /\ v.res \in {"", "bob"}
        /\ v.finish \in {10, 20}
        /\ v.children = 0}

InitCompound == OpenProject(CompoundVariants) /\ InitTasks /\ Loaded

----------------------------------------------------------------------------
(* The calls                                                               *)

Call(op, args, r) ==
    [op |-> op, args |-> args, kind |-> r.kind, val |-> r.val, error |-> ""]

FindRange ==
    \E key \in Keys, startID \in 1..MaxOutlineRows :
        /\ ret' = Call("findRange", <<key, startID>>, findRange(key, startID))
        /\ UNCHANGED <<Project, parsed, _Tasks, _RFQAs, _compoundTask, _unknowns,
                       MSProject, mpp>>

FindSubRange ==
    \E taskID \in 1..TasksCount :
        /\ ret' = Call("findSubRange", <<taskID>>, findSubRange(taskID))
        /\ UNCHANGED <<Project, parsed, _Tasks, _RFQAs, _compoundTask, _unknowns,
                       MSProject, mpp>>

Next == getTasks

NextRange == FindRange \/ FindSubRange

Spec == Init /\ [][Next]_vars

SpecMalformed == InitMalformed /\ [][Next]_vars

SpecRange == InitRange /\ [][NextRange]_vars

SpecCompound == InitCompound /\ [][Next]_vars

----------------------------------------------------------------------------
(* The write-backs                                                         *)

\* Tasks.__init__: the fields a caller may update.
_msfields ==
    {"Name", "Resources", "Start", "Finish", "PercentWorkComplete",
     "Priority", "ReleaseName"}

\* Lines 768-773: the attribute of the row that takes the value of field k.
AttributeOf(k) ==
    IF k = "Priority" THEN "Text2"
    ELSE IF k = "ReleaseName" THEN "Text3"
    ELSE k

\* setattr(self.Project.Tasks.Item(i), name, v)
SetAttr(rows, i, name, v) == [rows EXCEPT ![i] = DictSet(@, name, v)]

\* A write-back as it starts: the rows as they are, no exception, nothing
\* found, and None to return.
WriteStart ==
    [rows |-> Project, exc |-> "", msg |-> "", found |-> FALSE, val |-> "None"]

\* raise e(msg) before any row is touched.
WriteRaises(e, msg) == [WriteStart EXCEPT !.exc = e, !.msg = msg]

\* return updt and found
Updated(w) == [w EXCEPT !.val = IF w.found THEN "True" ELSE "False"]

\* Lines 765-776: the body of "for k, v in values.items()" for row i.
FieldStep(w, i, k, v) ==
    IF k \notin _msfields
        THEN [w EXCEPT !.exc = "KeyError",
                       !.msg = "Unknown or unsupported MSProject field"]
        ELSE [w EXCEPT !.rows = SetAttr(@, i, AttributeOf(k), v),
                       !.found = TRUE]

\* for k, v in values.items(), in the order of the entries of values.
RECURSIVE FieldLoop(_, _, _, _)
FieldLoop(w, i, items, n) ==
    IF n > Len(items) \/ w.exc # "" THEN w
    ELSE FieldLoop(FieldStep(w, i, items[n][1], items[n][2]), i, items, n + 1)

\* for i in dict[key]['id']
RECURSIVE IdLoop(_, _, _, _)
IdLoop(w, ids, items, n) ==
    IF n > Len(ids) \/ w.exc # "" THEN w
    ELSE IdLoop(FieldLoop(w, ids[n], items, 1), ids, items, n + 1)

_update(key, values) ==
    Updated(IdLoop(WriteStart, _Tasks[key]["id"], values.items, 1))

_updateRFQA(key, values) ==
    Updated(IdLoop(WriteStart, _RFQAs[key]["id"], values.items, 1))

\* key[2:]
AfterSN(key) == SubSeq(key, 3, Len(key))

\* raise AttributeError("... instance has no attribute key")
NoAttribute == WriteRaises("AttributeError", "instance has no attribute")

\* Lines 733-738: the rows are searched for the S/N key, which is not a key
\* of _Tasks, and _update is called for the first row found: its
\* self._Tasks[key] raises KeyError.
SearchRows(key) ==
    IF \E i \in 1..TasksCount : IsTask(i) /\ Item(i).Text1 = key
        THEN WriteRaises("KeyError", key)
        ELSE NoAttribute

\* updateTask and __setitem__ (the same statements).
updateTask(key, values) ==
    IF ~parsed \/ _Tasks = EmptyDict THEN WriteStart
    ELSE IF values.type # "dict" THEN WriteStart
    ELSE IF Len(key) > 2
        THEN IF Slice(key, 2) = "SN"
                THEN IF AfterSN(key) \in DOMAIN _Tasks
                        THEN _update(AfterSN(key), values)
                        ELSE NoAttribute
             ELSE IF key \in DOMAIN _Tasks THEN _update(key, values)
             ELSE SearchRows(key)
        ELSE NoAttribute

updateRFQA(key, values) ==
    IF ~parsed \/ _RFQAs = EmptyDict THEN WriteStart
    ELSE IF values.type # "dict" THEN WriteStart
    ELSE IF Len(key) > 2
        THEN IF Slice(key, 2) = "SN"
                THEN IF AfterSN(key) \in DOMAIN _RFQAs
                        THEN _updateRFQA(AfterSN(key), values)
                        ELSE NoAttribute
             ELSE IF key \in DOMAIN _RFQAs THEN _updateRFQA(key, values)
             ELSE NoAttribute
        ELSE NoAttribute

\* Lines 807-812: the rows of the task that have the resource take the
\* percent value.
RECURSIVE ProgressLoop(_, _, _, _, _)
ProgressLoop(w, ids, resource, pct, n) ==
    IF n > Len(ids) THEN w
    ELSE ProgressLoop(
            IF w.rows[ids[n]].ResourceNames = resource
                THEN [w EXCEPT !.rows = SetAttr(@, ids[n], "PercentWorkComplete", pct),
                               !.found = TRUE]
                ELSE w,
            ids, resource, pct, n + 1)

\* self._Tasks[acceptSN] of None raises TypeError, of a dict without the
\* key KeyError.
updateProgressPerResource(acceptSN, resource, PercentWorkComplete) ==
    IF ~parsed THEN WriteRaises("TypeError", "not subscriptable")
    ELSE IF acceptSN \notin DOMAIN _Tasks THEN WriteRaises("KeyError", acceptSN)
    ELSE Updated(ProgressLoop(WriteStart, _Tasks[acceptSN]["id"], resource,
                              PercentWorkComplete, 1))

\* datetime.datetime.strptime(newDate, '%Y/%m/%d'): the first minute of the
\* day. Dates are minutes and newDate is the number of the day.
strptime(newDate) == newDate * 24 * 60

\* Lines 819-825: the rows of the RFQA item take the new finish date and,
\* on request, the same start date.
RECURSIVE DateLoop(_, _, _, _, _)
DateLoop(w, ids, newDate, resetStart, n) ==
    IF n > Len(ids) THEN w
    ELSE DateLoop(
            [w EXCEPT !.rows =
                IF resetStart
                    THEN SetAttr(SetAttr(@, ids[n], "Finish", strptime(newDate)),
                                 ids[n], "Start", strptime(newDate))
                    ELSE SetAttr(@, ids[n], "Finish", strptime(newDate)),
                      !.found = TRUE],
            ids, newDate, resetStart, n + 1)

updateRFQADate(acceptSN, newDate, resetStart) ==
    IF ~parsed THEN WriteRaises("TypeError", "not subscriptable")
    ELSE IF acceptSN \notin DOMAIN _RFQAs THEN WriteRaises("KeyError", acceptSN)
    ELSE Updated(DateLoop(WriteStart, _RFQAs[acceptSN]["id"], newDate,
                          resetStart, 1))

\* A write-back call: the rows and the result it leaves. No write-back
\* assigns to one of the four dicts.
WriteBack(op, args, w) ==
    /\ Project' = w.rows
    /\ ret' = [op |-> op, args |-> args,
               kind |-> IF w.exc = "" THEN "return" ELSE "raise",
               val |-> IF w.exc = "" THEN w.val ELSE w.exc,
               error |-> w.msg]
    /\ UNCHANGED <<parsed, _Tasks, _RFQAs, _compoundTask, _unknowns,
                   MSProject, mpp>>

\* The lines of the projects written back to: the task "101" with one
\* resource and with another, and the RFQA item "102".
WriteVariants ==
    {Variant("", "101", "bob", 10, 20, 40, 0, 0),
     Variant("", "101", "carl", 10, 20, 61, 0, 0),
     Variant("", "102", "", 10, 10, 0, 0, 0)}

OpenWriteProject ==
    \E n \in 1..MaxWriteRecords :
        \E c \in [1..n -> WriteVariants] : Project = Lines(c)

InitWrite == OpenWriteProject /\ InitTasks /\ Loaded

\* A dict of field values, its entries in the order of insertion.
Dict(items) == [type |-> "dict", items |-> items]

\* The values passed: supported fields, an unsupported field after and
\* before a supported one, and a list in place of a dict.
WriteValues ==
    <<Dict(<< <<"Finish", 5>>, <<"ReleaseName", "R2">> >>),
      Dict(<< <<"Priority", "P9">>, <<"codeComplete", 37>> >>),
      Dict(<< <<"codeComplete", 37>>, <<"Priority", "P9">> >>),
      [type |-> "list", items |-> <<>>]>>

\* The keys passed: a serial number as it is and with the prefix SN, the
\* serial number of the other kind of line, and one of two characters.
TaskKeys == {"101", "SN101", "102", "10"}

RFQAKeys == {"102", "SN102", "101"}

UpdateTask ==
    \E key \in TaskKeys, n \in 1..Len(WriteValues) :
        WriteBack("updateTask", <<key, n>>, updateTask(key, WriteValues[n]))

SetItem ==
    \E n \in 1..Len(WriteValues) :
        WriteBack("__setitem__", <<"101", n>>, updateTask("101", WriteValues[n]))

UpdateRFQA ==
    \E key \in RFQAKeys, n \in 2..Len(WriteValues) :
        WriteBack("updateRFQA", <<key, n>>, updateRFQA(key, WriteValues[n]))

UpdateProgressPerResource ==
    \E acceptSN \in {"101", "102"} :
        WriteBack("updateProgressPerResource", <<acceptSN, "bob", 80>>,
                  updateProgressPerResource(acceptSN, "bob", 80))

UpdateRFQADate ==
    \E acceptSN \in {"102", "101"}, resetStart \in BOOLEAN :
        WriteBack("updateRFQADate", <<acceptSN, 1, resetStart>>,
                  updateRFQADate(acceptSN, 1, resetStart))

NextWrite ==
    \/ getTasks
    \/ UpdateTask
    \/ SetItem
    \/ UpdateRFQA
    \/ UpdateProgressPerResource
    \/ UpdateRFQADate

SpecWrite == InitWrite /\ [][NextWrite]_vars

\* The lines of the projects whose tasks are looked up by S/N: one S/N of
\* one character, one that starts with "SN", and one of three characters.
SerialVariants ==
    {Variant("", sn, "bob", 10, 20, 40, 0, 0) : sn \in {"7", "SN7", "101"}}

OpenSerialProject ==
    \E n \in 1..MaxSerialRecords :
        \E c \in [1..n -> SerialVariants] : Project = Lines(c)

InitSerial == OpenSerialProject /\ InitTasks /\ Loaded

\* The keys passed: the S/Ns of the lines, and one with the prefix SN.
SerialKeys == {"7", "SN7", "101", "SN101"}

UpdateTaskOfSerial ==
    \E key \in SerialKeys, n \in 1..Len(WriteValues) :
        WriteBack("updateTask", <<key, n>>, updateTask(key, WriteValues[n]))

SetItemOfSerial ==
    \E key \in SerialKeys, n \in 1..Len(WriteValues) :
        WriteBack("__setitem__", <<key, n>>, updateTask(key, WriteValues[n]))

NextSerial ==
    \/ getTasks
    \/ UpdateTaskOfSerial
    \/ SetItemOfSerial

SpecSerial == InitSerial /\ [][NextSerial]_vars

----------------------------------------------------------------------------
(* buildAnalysisTree                                                       *)

\* c.upper() of one character, for the letters of the prefix.
UpperChar(c) ==
    CASE c = "a" -> "A"
      [] c = "n" -> "N"
      [] OTHER -> c

\* s.upper()
RECURSIVE Upper(_)
Upper(s) ==
    IF Len(s) = 0 THEN ""
    ELSE UpperChar(SubSeq(s, 1, 1)) \o Upper(SubSeq(s, 2, Len(s)))

\* string.join(words, sep): the module string of Python 3 has no join, and
\* the attribute lookup raises AttributeError.
string_join(words, sep) == Raised("AttributeError")

\* Lines 882-890: the tree entry of the row i.
NewEntry(i, py, subrange) ==
    [subrange |-> subrange,
     start |-> proj2time(Item(i).Start),
     finish |-> proj2time(Item(i).Finish),
     category |-> py,
     totalWork |-> 0,
     actualWork |-> 0,
     percentWorkComplete |-> <<>>,
     subTasks |-> EmptyDict]

\* Lines 891-900: the entry of a category, opened by the row i.
NewCategory(i) ==
    [subrange |-> <<>>,
     AN |-> <<>>,
     totalWork |-> 0,
     actualWork |-> 0,
     percentWorkComplete |-> <<>>,
     subTasks |-> EmptyDict,
     start |-> proj2time(Item(i).Start),
     finish |-> proj2time(Item(i).Finish)]

\* Lines 902-903: if cats[py]['start'] < start: cats[py]['start'] = start
MemberStart(c, start) == IF c.start < start THEN [c EXCEPT !.start = start] ELSE c

\* Lines 904-905: if finish > cats[py]['finish']: cats[py]['finish'] = finish
MemberFinish(c, finish) ==
    IF finish > c.finish THEN [c EXCEPT !.finish = finish] ELSE c

\* Lines 901-905: the category takes the row i as a member.
WithMember(c, sn, i) ==
    MemberFinish(
        MemberStart([c EXCEPT !.AN = Append2(@, sn)], proj2time(Item(i).Start)),
        proj2time(Item(i).Finish))

\* Lines 881-905: the row i opens a tree entry and joins its category.
Seeded(b, i, sn, py) ==
    [b EXCEPT
        !.tree = DictSet(@, sn, NewEntry(i, py, findRange(sn, i).val)),
        !.cats = DictSet(@, py,
                    WithMember(IF py \in DOMAIN b.cats THEN b.cats[py]
                                                       ELSE NewCategory(i),
                               sn, i))]

\* Lines 915-919 and 929-933: what is kept of the leaf row j.
LeafOf(j) ==
    [start |-> proj2time(Item(j).Start),
     finish |-> proj2time(Item(j).Finish),
     work |-> Item(j).Work,
     actual |-> Item(j).ActualWork,
     percent |-> Item(j).PercentWorkComplete]

\* Lines 923-924 and 937-938: the later finish is kept.
LeafFinish(e, leaf) ==
    IF leaf.finish > e.finish THEN [e EXCEPT !.finish = leaf.finish] ELSE e

\* Lines 921-924 and 935-938: the entry reaches as far as the leaf.
Envelope(e, leaf) ==
    LeafFinish(
        IF leaf.start < e.start THEN [e EXCEPT !.start = leaf.start] ELSE e,
        leaf)

\* Lines 925-927 and 939-941: the work and the percent value of the leaf.
AddWork(e, leaf) ==
    [e EXCEPT !.totalWork = @ + leaf.work,
              !.actualWork = @ + leaf.actual,
              !.percentWorkComplete = Append2(@, leaf.percent)]

\* Lines 914-927 and 928-941: the leaf is stored under sns and folded in.
FoldLeaf(e, sns, leaf) ==
    AddWork(Envelope([e EXCEPT !.subTasks = DictSet(@, sns, leaf)], leaf), leaf)

\* Line 913: str(Text1) + '_' + str(rsn) + '_' + str(j)
LeafKey(j, rsn) == Item(j).Text1 \o "_" \o rsn \o "_" \o ToString(j)

\* Lines 913-941: the leaf row j is folded into the entry sn and into the
\* category py.
Folded(b, sn, py, j, sns) ==
    [b EXCEPT
        !.tree = DictSet(@, sn,
                    FoldLeaf(b.tree[sn], sns,
                             DictSet(LeafOf(j), "category", py))),
        !.cats = DictSet(@, py,
                    FoldLeaf(b.cats[py], sns, DictSet(LeafOf(j), "AN", sn)))]

\* Lines 909-941, from the value of rsn on: only a row without subtasks
\* (findSubRange gives start = end) is folded.
AfterJoin(b, sn, py, j, rsn) ==
    IF rsn.kind = "raise" THEN [b EXCEPT !.exc = rsn.val]
    ELSE IF findSubRange(j).val[1] = findSubRange(j).val[2]
        THEN Folded(b, sn, py, j, LeafKey(j, rsn.val))
        ELSE b

\* Lines 907-941: the body of "for j in range(subrange[0], subrange[1] + 1)".
\* Text1 of a None row raises AttributeError.
LeafStep(b, sn, py, j) ==
    IF ~IsTask(j) THEN [b EXCEPT !.exc = "AttributeError"]
    ELSE IF (Item(j).Text1 # "" \/ Item(j).ResourceNames # "")
                /\ Lower(Item(j).Text4) # "ignore"
        THEN AfterJoin(b, sn, py, j,
                       string_join(Split(Item(j).ResourceNames, ","), ""))
        ELSE b

RECURSIVE LeafLoop(_, _, _, _, _)
LeafLoop(b, sn, py, j, last) ==
    IF j > last \/ b.exc # "" THEN b
    ELSE LeafLoop(LeafStep(b, sn, py, j), sn, py, j + 1, last)

\* Lines 879-941: the body of "for i in range(trange[0] - 1, trange[1])".
\* Item(0) is no row of the project (a COM error); Text1 of a None row
\* raises AttributeError.
EntryStep(b, i) ==
    IF i \notin 1..TasksCount THEN [b EXCEPT !.exc = "com_error"]
    ELSE IF ~IsTask(i) THEN [b EXCEPT !.exc = "AttributeError"]
    ELSE IF Slice(Upper(Item(i).Text1), 3) = "AN-" /\ Lower(Item(i).Text4) # "ignore"
        THEN LeafLoop(Seeded(b, i, Item(i).Text1, Item(i).Text4),
                      Item(i).Text1, Item(i).Text4,
                      findRange(Item(i).Text1, i).val[1],
                      findRange(Item(i).Text1, i).val[2])
        ELSE b

\* for i in range(first, stop): stop is not visited.
RECURSIVE EntryLoop(_, _, _)
EntryLoop(b, i, stop) ==
    IF i >= stop \/ b.exc # "" THEN b
    ELSE EntryLoop(EntryStep(b, i), i + 1, stop)

\* Lines 875-876: the two trees start empty.
TreeStart == [tree |-> EmptyDict, cats |-> EmptyDict, exc |-> ""]

\* buildAnalysisTree(task): the trees it returns or the exception it
\* raises; findRange raises when no row carries task.
buildAnalysisTree(task) ==
    IF findRange(task, 1).kind = "raise"
        THEN [TreeStart EXCEPT !.exc = findRange(task, 1).val]
        ELSE EntryLoop(TreeStart, findRange(task, 1).val[1] - 1,
                       findRange(task, 1).val[2])

\* A line of a project with analysis items: its name, S/N, category, resource,
\* dates, work and outline number.
TreeRow(k, outline) ==
    [Name |-> k.name,
     Text1 |-> k.sn,
     Text2 |-> "",
     Text3 |-> "",
     Text4 |-> k.py,
     Text5 |-> "",
     Text6 |-> "",
     ResourceNames |-> k.res,
     Start |-> k.start,
     Finish |-> k.finish,
     PercentWorkComplete |-> k.pct,
     OutlineNumber |-> outline,
     PredecessorTasksCount |-> 0,
     OutlineChildrenCount |-> 0,
     Work |-> k.work,
     ActualWork |-> k.actual]

TreeKind(name, sn, py, res, start, finish, work) ==
    [name |-> name, sn |-> sn, py |-> py, res |-> res, start |-> start,
     finish |-> finish, work |-> work, actual |-> work \div 2, pct |-> 50]

\* The line the tree is built under.
RootKind == TreeKind("K", "", "", "", 5, 25, 0)

\* Two analysis items of one category (the prefix in either case), an
\* analysis item flagged to be ignored, a line with neither S/N nor resource
\* and a line with a resource.
TreeKinds ==
    {TreeKind("X", "AN-1", "c", "", 5, 25, 0),
     TreeKind("X", "an-2", "c", "", 10, 20, 0),
     TreeKind("X", "AN-3", "Ignore", "", 10, 20, 0),
     TreeKind("X", "", "", "", 10, 20, 0),
     TreeKind("X", "", "", "bob", 10, 30, 8)}

\* The outline levels of the lines: the root at level 1, the first line
\* under it at level 2, every other line under the root and at most one
\* level below the line before it.
TreeLevels(n) ==
    {lv \in [1..n -> 1..MaxDepth] :
        /\ lv[1] = 1
        /\ \A i \in 2..n : lv[i] >= 2 /\ lv[i] <= lv[i - 1] + 1}

\* The outline number of line i as a list of numbers: one level deeper
\* starts at 1, the same or a higher level counts on.
RECURSIVE PathOf(_, _)
PathOf(lv, i) ==
    IF i = 1 THEN <<1>>
    ELSE IF lv[i] > lv[i - 1] THEN PathOf(lv, i - 1) \o <<1>>
    ELSE SubSeq(PathOf(lv, i - 1), 1, lv[i] - 1)
            \o <<PathOf(lv, i - 1)[lv[i]] + 1>>

\* The outline number as text: the numbers with dots between them.
RECURSIVE Dotted(_)
Dotted(p) ==
    IF Len(p) = 1 THEN ToString(p[1])
    ELSE Dotted(SubSeq(p, 1, Len(p) - 1)) \o "." \o ToString(p[Len(p)])

OpenTreeProject ==
    \E n \in 1..MaxTreeRows :
        \E c \in [2..n -> TreeKinds], lv \in TreeLevels(n) :
            Project = [i \in 1..n |->
                        TreeRow(IF i = 1 THEN RootKind ELSE c[i],
                                Dotted(PathOf(lv, i)))]

InitTree == OpenTreeProject /\ InitTasks /\ Loaded

\* The names and S/Ns the tree is built under.
TreeRoots == {"K", "AN-1"}

BuildAnalysisTree ==
    \E task \in TreeRoots :
        /\ ret' = [op |-> "buildAnalysisTree", args |-> <<task>>,
                   kind |-> IF buildAnalysisTree(task).exc = "" THEN "return"
                                                               ELSE "raise",
                   val |-> IF buildAnalysisTree(task).exc = ""
                            THEN [tree |-> buildAnalysisTree(task).tree,
                                  cats |-> buildAnalysisTree(task).cats]
                            ELSE [exc |-> buildAnalysisTree(task).exc],
                   error |-> buildAnalysisTree(task).exc]
        /\ UNCHANGED <<Project, parsed, _Tasks, _RFQAs, _compoundTask, _unknowns,
                       MSProject, mpp>>

NextTree == BuildAnalysisTree

SpecTree == InitTree /\ [][NextTree]_vars

----------------------------------------------------------------------------
(* The MSProject instance: newSchedule, load and the attribute Tasks       *)

\* The most projects made with FileNew.
MaxNewProjects == 2

None == "None"

\* The files that FileOpen opens, and the rows of each.
Documents ==
    ("a.mpp" :> Lines(<<Variant("", "101", "bob", 10, 20, 40, 0, 0)>>)) @@
    ("b.mpp" :> Lines(<<Variant("", "101", "carl", 10, 20, 61, 0, 0),
                        Variant("", "102", "", 10, 10, 0, 0, 0)>>))

\* The files asked for: those of Documents and one that does not exist.
Docs == {"a.mpp", "b.mpp", "missing.mpp"}

DigitOf == <<"1", "2", "3", "4", "5", "6", "7", "8", "9">>

\* The project that the k-th FileNew makes.
NewProject(k) == "Project" \o DigitOf[k]

\* Project.Tasks of a project: the rows of its file; a new project has none.
RowsOf(p) == IF p \in DOMAIN Documents THEN Documents[p] ELSE <<>>

\* MSProject.__init__: no project, no Tasks object.
InitMSProject ==
    /\ MSProject = [Project |-> None, _Tasks |-> None]
    /\ mpp = [ActiveProject |-> None, Created |-> 0]
    /\ Project = <<>>
    /\ InitTasks

\* Tasks(self.mpp, p): a Tasks object over the project p, its dicts None.
NewTasks(p) ==
    /\ Project' = RowsOf(p)
    /\ parsed' = FALSE
    /\ _Tasks' = EmptyDict
    /\ _RFQAs' = EmptyDict
    /\ _compoundTask' = EmptyDict
    /\ _unknowns' = EmptyDict

\* The Tasks object as it is.
SameTasks ==
    UNCHANGED <<Project, parsed, _Tasks, _RFQAs, _compoundTask, _unknowns>>

Returns(op, args, val) ==
    [op |-> op, args |-> args, kind |-> "return", val |-> val, error |-> ""]

\* newSchedule where FileNew makes a project: it is the active one,
\* self.Project refers to it and self._Tasks is a new Tasks object over it.
newSchedule_Made ==
    /\ mpp.Created < MaxNewProjects
    /\ mpp' = [ActiveProject |-> NewProject(mpp.Created + 1),
               Created |-> mpp.Created + 1]
    /\ MSProject' = [Project |-> mpp'.ActiveProject,
                     _Tasks |-> mpp'.ActiveProject]
    /\ NewTasks(mpp'.ActiveProject)
    /\ ret' = Returns("newSchedule", <<>>, "True")

\* newSchedule where FileNew raises.
newSchedule_Failed ==
    /\ ret' = Returns("newSchedule", <<>>, "False")
    /\ SameTasks
    /\ UNCHANGED <<MSProject, mpp>>

newSchedule == newSchedule_Made \/ newSchedule_Failed

\* load: the file is opened and self.Project refers to it; self._Tasks is
\* not assigned to. FileOpen raises for a file that does not exist.
load(doc) ==
    IF doc \in DOMAIN Documents
    THEN /\ mpp' = [mpp EXCEPT !.ActiveProject = doc]
         /\ MSProject' = [MSProject EXCEPT !.Project = doc]
         /\ ret' = Returns("load", <<doc>>, "True")
         /\ SameTasks
    ELSE /\ ret' = Returns("load", <<doc>>, "False")
         /\ SameTasks
         /\ UNCHANGED <<MSProject, mpp>>

\* MSProject.__getattr__: a Tasks object is true, so one that was made is
\* returned as it is.
__getattr__(attr) ==
    IF attr = "Tasks"
    THEN IF MSProject._Tasks = None
         THEN IF MSProject.Project = None
              THEN /\ ret' = [op |-> "__getattr__", args |-> <<attr>>,
                              kind |-> "raise", val |-> "AttributeError",
                              error |-> "instance has no attribute"]
                   /\ SameTasks
                   /\ UNCHANGED <<MSProject, mpp>>
              ELSE /\ MSProject' = [MSProject EXCEPT
                                        !._Tasks = MSProject.Project]
                   /\ NewTasks(MSProject.Project)
                   /\ ret' = Returns("__getattr__", <<attr>>, "_Tasks")
                   /\ UNCHANGED mpp
         ELSE /\ ret' = Returns("__getattr__", <<attr>>, "_Tasks")
              /\ SameTasks
              /\ UNCHANGED <<MSProject, mpp>>
    ELSE /\ ret' = [op |-> "__getattr__", args |-> <<attr>>,
                    kind |-> "raise", val |-> "AttributeError",
                    error |-> "instance has no attribute"]
         /\ SameTasks
         /\ UNCHANGED <<MSProject, mpp>>

Load == \E doc \in Docs : load(doc)

GetAttr == \E attr \in {"Tasks", "Resources"} : __getattr__(attr)

\* MSProject.Tasks.getTasks() and MSProject.Tasks.updateTask(key, values)
\* on the Tasks object that the instance holds.
TasksGetTasks == MSProject._Tasks # None /\ getTasks

TasksUpdateTask ==
    /\ MSProject._Tasks # None
    /\ \E key \in {"101", "102"}, n \in 1..Len(WriteValues) :
           WriteBack("updateTask", <<key, n>>, updateTask(key, WriteValues[n]))

NextMSProject ==
    \/ newSchedule
    \/ Load
    \/ GetAttr
    \/ TasksGetTasks
    \/ TasksUpdateTask

SpecMSProject == InitMSProject /\ [][NextMSProject]_vars

----------------------------------------------------------------------------
(* The outline ranges: what findRange and findSubRange are to return       *)

\* Row j carries key as its name or its S/N.
Matches(j, key) == IsTask(j) /\ (Item(j).Name = key \/ Item(j).Text1 = key)

\* The rows from startID on that carry key.
MatchIds(key, startID) == {j \in startID..TasksCount : Matches(j, key)}

\* The least element of a non-empty set of row numbers.
Least(S) == CHOOSE m \in S : \A n \in S : m <= n

\* The greatest element of a non-empty set of row numbers.
Greatest(S) == CHOOSE m \in S : \A n \in S : m >= n

\* Row j is a record below p: its outline number starts with p's and a dot.
Below(j, p) ==
    /\ IsTask(j)
    /\ Len(Item(j).OutlineNumber) > Len(Item(p).OutlineNumber)
    /\ SubSeq(Item(j).OutlineNumber, 1, Len(Item(p).OutlineNumber) + 1)
            = Item(p).OutlineNumber \o "."

\* The records right after p that are below it, up to the first record that
\* is not (blank lines are no records).
RunAfter(p) ==
    {e \in (p + 1)..TasksCount :
        Below(e, p) /\ \A j \in (p + 1)..e : IsTask(j) => Below(j, p)}

\* The first record after p, if any, is not below p.
Childless(p) ==
    \A j \in (p + 1)..TasksCount :
        (IsTask(j) /\ \A n \in (p + 1)..(j - 1) : ~IsTask(n)) => ~Below(j, p)

\* The parent row of the last call, when it returned a range.
IsRangeCall == ret.op \in {"findRange", "findSubRange"} /\ ret.kind = "return"

ParentOfCall ==
    IF ret.op = "findRange"
        THEN Least(MatchIds(ret.args[1], ret.args[2]))
        ELSE ret.args[1]

\* Rows p+1 .. p+k are records below p, and a record that is not below p,
\* or the end of the project, follows them.
FollowedBy(p, k) ==
    /\ k >= 1
    /\ p + k <= TasksCount
    /\ \A j \in (p + 1)..(p + k) : Below(j, p)
    /\ p + k < TasksCount => (IsTask(p + k + 1) /\ ~Below(p + k + 1, p))

\* C1 as stated: findRange on a key whose first matching record p is
\* followed by k >= 1 records below it returns (p, p + k).
C1_StartsAtParent ==
    (ret.op = "findRange" /\ ret.kind = "return") =>
        \A k \in 1..TasksCount :
            FollowedBy(ParentOfCall, k) =>
                ret.val = <<ParentOfCall, ParentOfCall + k>>

\* C1 amended: findRange on a key whose first matching record p is followed
\* by k >= 1 records below it returns (p + 1, p + k): the range holds the
\* subtasks and starts at the row after the matched record.
C1_StartsAfterParent ==
    (ret.op = "findRange" /\ ret.kind = "return") =>
        \A k \in 1..TasksCount :
            FollowedBy(ParentOfCall, k) =>
                ret.val = <<ParentOfCall + 1, ParentOfCall + k>>

\* findRange returned for a record with two records below it.
C1_Witness ==
    /\ ret.op = "findRange"
    /\ ret.kind = "return"
    /\ FollowedBy(ParentOfCall, 2)
    /\ ParentOfCall > 1

\* C2: the end id findRange returns is the id of the last record of the
\* run of records below the matched parent that starts right after it; the
\* first record that is not below the parent, and every record after it, is
\* outside the range, also a later record that is below the parent again.
C2_EndIsLastOfRun ==
    (ret.op = "findRange" /\ ret.kind = "return") =>
        /\ ret.val[2] = Greatest(RunAfter(ParentOfCall) \cup {ParentOfCall})
        /\ \A j \in (ParentOfCall + 1)..TasksCount :
                (IsTask(j) /\ ~Below(j, ParentOfCall)) =>
                    \A n \in j..TasksCount : n > ret.val[2]

\* findRange returned a range with a record in it while a record after the
\* range is again below the parent.
C2_Witness ==
    /\ ret.op = "findRange"
    /\ ret.kind = "return"
    /\ RunAfter(ParentOfCall) # {}
    /\ \E j \in (ret.val[2] + 2)..TasksCount : Below(j, ParentOfCall)

\* C3: findRange raises whenever no record from searchFromId to the last
\* row carries the key as its name or S/N; it returns no range then.
C3_NotFoundRaises ==
    ret.op = "findRange" =>
        (MatchIds(ret.args[1], ret.args[2]) = {} =>
            (ret.kind = "raise" /\ ret.val = "AttributeError"))

\* findRange raised although a record before searchFromId carries the key.
C3_Witness ==
    /\ ret.op = "findRange"
    /\ ret.kind = "raise"
    /\ MatchIds(ret.args[1], 1) # {}

\* C4: findRange and findSubRange return (p, p) for the parent p exactly
\* when the first record after p is not below p or no record follows p.
C4_CollapsedIffChildless ==
    IsRangeCall =>
        (ret.val = <<ParentOfCall, ParentOfCall>> <=> Childless(ParentOfCall))

\* findSubRange returned (p, p) for a record p followed by a blank line and
\* then a record that is not below p.
C4_Witness ==
    /\ ret.op = "findSubRange"
    /\ ret.kind = "return"
    /\ ret.val = <<ParentOfCall, ParentOfCall>>
    /\ ParentOfCall + 2 <= TasksCount
    /\ ~IsTask(ParentOfCall + 1)
    /\ IsTask(ParentOfCall + 2)

----------------------------------------------------------------------------
(* The aggregation: what getTasks is to leave in the four dicts            *)

\* The ids of a list-valued entry of a dict, none when the key is absent.
IdsUnder(d, key) == IF key \in DOMAIN d THEN Elems(d[key]) ELSE {}

\* The ids listed by an entry of _Tasks or _RFQAs, none without id list.
IdsOf(e) == IF "id" \in DOMAIN e THEN Elems(e["id"]) ELSE {}

\* Row i is a record that is not flagged "ignore" (in any case) and has a
\* S/N field.
Scanned(i) ==
    /\ IsTask(i)
    /\ Item(i).Text4 \notin {"ignore", "Ignore", "IGNORE"}
    /\ Item(i).Text1 # ""

\* The serial tokens of row i.
TokensOf(i) == Elems(Split(Item(i).Text1, ","))

\* Row i qualifies as a task: it has a resource and a positive duration.
Qualifies(i) ==
    /\ Scanned(i)
    /\ Item(i).ResourceNames # ""
    /\ Item(i).Finish - Item(i).Start > 0

\* The qualifying rows that carry the serial token sn.
Carriers(sn) == {i \in 1..TasksCount : Qualifies(i) /\ sn \in TokensOf(i)}

\* The serial tokens some row carries.
AllTokens == UNION {TokensOf(i) : i \in {j \in 1..TasksCount : Scanned(j)}}

\* Row i has no resource, no predecessor and no child.
RFQARow(i) ==
    /\ Scanned(i)
    /\ Item(i).ResourceNames = ""
    /\ Item(i).PredecessorTasksCount = 0
    /\ Item(i).OutlineChildrenCount = 0

\* The RFQA rows that carry the serial token sn.
RFQACarriers(sn) == {i \in 1..TasksCount : RFQARow(i) /\ sn \in TokensOf(i)}

\* C5: after getTasks there is one AggregatedTask per serial token that a
\* qualifying record carries, none for any other token, and its start is
\* the least start and its finish the greatest finish of those records.
C5_OneTaskPerSerialMinMax ==
    parsed =>
        /\ DOMAIN _Tasks = {sn \in AllTokens : Carriers(sn) # {}}
        /\ \A sn \in DOMAIN _Tasks :
            /\ \A i \in Carriers(sn) :
                /\ _Tasks[sn].Start <= proj2time(Item(i).Start)
                /\ _Tasks[sn].Finish >= proj2time(Item(i).Finish)
            /\ \E i \in Carriers(sn) : _Tasks[sn].Start = proj2time(Item(i).Start)
            /\ \E i \in Carriers(sn) : _Tasks[sn].Finish = proj2time(Item(i).Finish)

\* Two records carry "A", the first from 10 to 20 and a later one from 5 to
\* 25, and the task "A" runs from 5 to 25 (in seconds).
C5_Witness ==
    /\ parsed
    /\ "A" \in DOMAIN _Tasks
    /\ \E i, j \in Carriers("A") :
        /\ i < j
        /\ Item(i).Start = 10 /\ Item(i).Finish = 20
        /\ Item(j).Start = 5 /\ Item(j).Finish = 25
    /\ _Tasks["A"].Start = 300
    /\ _Tasks["A"].Finish = 1500

\* The percent values of the qualifying rows from row i on that carry sn,
\* one per row and occurrence of sn in its S/N field, in row order.
RECURSIVE PercentsFrom(_, _)
PercentsFrom(sn, i) ==
    IF i > TasksCount THEN <<>>
    ELSE IF Qualifies(i)
        THEN [n \in 1..Count(Split(Item(i).Text1, ","), sn)
                |-> Item(i).PercentWorkComplete] \o PercentsFrom(sn, i + 1)
        ELSE PercentsFrom(sn, i + 1)

\* C6: after getTasks every AggregatedTask has a non-empty percent list
\* with one value per contributing record and serial token, and its
\* percentWorkComplete is the floor of the sum of the list divided by its
\* length.
C6_PercentIsFloorAverage ==
    parsed =>
        \A sn \in DOMAIN _Tasks :
            /\ _Tasks[sn].PercentWorkCompleteList # <<>>
            /\ _Tasks[sn].PercentWorkCompleteList = PercentsFrom(sn, 1)
            /\ _Tasks[sn].PercentWorkComplete * Len(PercentsFrom(sn, 1))
                    <= SumList(PercentsFrom(sn, 1))
            /\ SumList(PercentsFrom(sn, 1))
                    < (_Tasks[sn].PercentWorkComplete + 1) * Len(PercentsFrom(sn, 1))

\* A task with the percent values 40 and 61, whose average 50.5 is cut to 50.
C6_Witness ==
    /\ parsed
    /\ \E sn \in DOMAIN _Tasks :
        /\ _Tasks[sn].PercentWorkCompleteList = <<40, 61>>
        /\ _Tasks[sn].PercentWorkComplete = 50

\* C7: after getTasks the id of every record with a S/N that is not flagged
\* "ignore" is in the id list of some AggregatedTask or of some
\* RFQACandidate, or in some id list of the UnclassifiedIndex.
C7_EveryRecordReachable ==
    parsed =>
        \A i \in 1..TasksCount :
            Scanned(i) =>
                \/ \E sn \in DOMAIN _Tasks : i \in IdsOf(_Tasks[sn])
                \/ \E sn \in DOMAIN _RFQAs : i \in IdsOf(_RFQAs[sn])
                \/ \E SN \in DOMAIN _unknowns : i \in Elems(_unknowns[SN])

\* A row holds a value the scan cannot convert.
Malformed(t) ==
    /\ t # Blank
    /\ \/ t.PercentWorkComplete = BadPercent
       \/ t.Start = NA
       \/ t.Finish = NA

MalformedIds == {i \in 1..TasksCount : Malformed(Item(i))}

\* The project without its malformed rows (the ids of the others kept).
WellFormedRows ==
    [i \in 1..TasksCount |-> IF Malformed(Item(i)) THEN Blank ELSE Item(i)]

\* Two scan results hold the same four dicts.
SameDicts(a, b) == a.T = b.T /\ a.R = b.R /\ a.C = b.C /\ a.U = b.U

Dicts == [T |-> _Tasks, R |-> _RFQAs, C |-> _compoundTask, U |-> _unknowns]

\* C8: one malformed record never aborts getTasks: it is skipped, and the
\* four dicts are those of the scan of the project without that record,
\* averages included.
C8_MalformedRecordSkipped ==
    (parsed /\ Cardinality(MalformedIds) = 1) =>
        /\ ret.error = ""
        /\ SameDicts(Dicts, ScanOf(WellFormedRows))

\* Row i was handled as an RFQA item: every token of it has an RFQACandidate
\* written by row i or by a later row, and the row is not listed as unknown.
ClassifiedRFQA(i) ==
    /\ \A sn \in TokensOf(i) :
        /\ sn \in DOMAIN _RFQAs
        /\ \E j \in i..TasksCount : j \in IdsOf(_RFQAs[sn])
    /\ i \notin IdsUnder(_unknowns, Item(i).Text1)

\* Row i is in the id list of no AggregatedTask.
InNoTask(i) == \A sn \in DOMAIN _Tasks : i \notin IdsOf(_Tasks[sn])

\* Row i has a S/N and no positive duration.
NoDuration(i) == Scanned(i) /\ Item(i).Finish <= Item(i).Start

\* C9 as stated: a record with a S/N and finish <= start is in no
\* AggregatedTask and is classified RFQA whenever it has no predecessor and
\* no child, with or without a resource.
C9_RFQAWhateverResource ==
    parsed =>
        \A i \in 1..TasksCount :
            NoDuration(i) =>
                /\ InNoTask(i)
                /\ (Item(i).PredecessorTasksCount = 0
                        /\ Item(i).OutlineChildrenCount = 0) => ClassifiedRFQA(i)

\* C9 amended: such a record is in no AggregatedTask; with no predecessor
\* and no child it is classified RFQA when its resource field is empty, and
\* with a resource it is listed in the UnclassifiedIndex and in no
\* RFQACandidate.
C9_RFQAOnlyWithoutResource ==
    parsed =>
        \A i \in 1..TasksCount :
            NoDuration(i) =>
                /\ InNoTask(i)
                /\ RFQARow(i) => ClassifiedRFQA(i)
                /\ Item(i).ResourceNames # "" =>
                    /\ i \in IdsUnder(_unknowns, Item(i).Text1)
                    /\ \A sn \in DOMAIN _RFQAs : i \notin IdsOf(_RFQAs[sn])

\* A scanned project with two records of no duration, no predecessor and
\* no child, one without and one with a resource.
C9_Witness ==
    /\ parsed
    /\ \E i, j \in 1..TasksCount :
        /\ NoDuration(i) /\ RFQARow(i) /\ ClassifiedRFQA(i)
        /\ NoDuration(j) /\ Item(j).ResourceNames # ""
        /\ Item(j).PredecessorTasksCount = 0
        /\ Item(j).OutlineChildrenCount = 0
        /\ j \in IdsUnder(_unknowns, Item(j).Text1)

\* C10: after getTasks the RFQACandidate of a serial number lists the ids
\* of all records classified RFQA for it, and its name, start, finish,
\* priority and release are those of the last of them.
C10_RFQAIdsAccumulate ==
    parsed =>
        /\ DOMAIN _RFQAs = {sn \in AllTokens : RFQACarriers(sn) # {}}
        /\ \A sn \in DOMAIN _RFQAs :
            /\ IdsOf(_RFQAs[sn]) = RFQACarriers(sn)
            /\ _RFQAs[sn].Name = AsciiStr(Item(Greatest(RFQACarriers(sn))).Name)
            /\ _RFQAs[sn].Start = proj2time(Item(Greatest(RFQACarriers(sn))).Start)
            /\ _RFQAs[sn].Finish = proj2time(Item(Greatest(RFQACarriers(sn))).Finish)
            /\ _RFQAs[sn].Priority = AsciiStr(Item(Greatest(RFQACarriers(sn))).Text2)
            /\ _RFQAs[sn].ReleaseName = AsciiStr(Item(Greatest(RFQACarriers(sn))).Text3)

\* The resource names of the qualifying rows that carry sn, as the dict
\* stores a name.
ResourcesOf(sn) ==
    {AsciiStr(name) :
        name \in UNION {Elems(Split(Item(i).ResourceNames, ",")) : i \in Carriers(sn)}}

\* C11: after getTasks the resources of every AggregatedTask are the union
\* of the comma-split resource names of its contributing records, and no
\* name occurs more than once in them.
C11_ResourcesFormASet ==
    parsed =>
        \A sn \in DOMAIN _Tasks :
            /\ Elems(_Tasks[sn].Resources) = ResourcesOf(sn)
            /\ \A name \in ResourcesOf(sn) : Count(_Tasks[sn].Resources, name) = 1

\* Row i is in no id list of the UnclassifiedIndex.
InNoUnknown(i) == \A SN \in DOMAIN _unknowns : i \notin Elems(_unknowns[SN])

\* Row i has a single serial token.
SingleSerial(i) == Len(Split(Item(i).Text1, ",")) = 1

\* No scanned row but i carries the serial token sn.
OnlyCarrier(i, sn) ==
    \A j \in 1..TasksCount : (Scanned(j) /\ sn \in TokensOf(j)) => j = i

\* C12: after getTasks a record that is not ignored, has no resource, no
\* predecessor, no child and a single serial number sn has an RFQACandidate
\* under sn and is in no AggregatedTask and in no list of the
\* UnclassifiedIndex; when no other record carries sn, the RFQACandidate of
\* sn is this record's and there is no AggregatedTask for sn.
C12_SingleSerialRFQA ==
    parsed =>
        \A i \in 1..TasksCount :
            (RFQARow(i) /\ SingleSerial(i)) =>
                /\ Item(i).Text1 \in DOMAIN _RFQAs
                /\ InNoTask(i)
                /\ InNoUnknown(i)
                /\ OnlyCarrier(i, Item(i).Text1) =>
                    /\ IdsOf(_RFQAs[Item(i).Text1]) = {i}
                    /\ _RFQAs[Item(i).Text1].Name = AsciiStr(Item(i).Name)
                    /\ Item(i).Text1 \notin DOMAIN _Tasks

\* A scanned project where the only record carrying "A" that is not ignored
\* has no resource, no predecessor and no child; another record carries "A"
\* and is flagged to be ignored.
C12_Witness ==
    /\ parsed
    /\ \E i \in 1..TasksCount :
        /\ RFQARow(i) /\ Item(i).Text1 = "A" /\ OnlyCarrier(i, "A")
        /\ IdsOf(_RFQAs["A"]) = {i}
        /\ "A" \notin DOMAIN _Tasks
        /\ \E j \in 1..TasksCount :
            IsTask(j) /\ j # i /\ Item(j).Text1 = "A" /\ Item(j).Text4 = "Ignore"

\* The project with the S/N field of row i replaced by the single serial
\* number sn.
AsSingleSerial(i, sn) == [Project EXCEPT ![i].Text1 = sn]

\* The entries of key in two dicts are the same, or absent from both.
SameEntry(d, e, key) ==
    /\ key \in DOMAIN d <=> key \in DOMAIN e
    /\ key \in DOMAIN d => d[key] = e[key]

\* The token sn of row i is classified as in the scan alone, where row i
\* has the single serial number sn: the AggregatedTask and the
\* RFQACandidate of sn are the same, and row i is listed as unclassified
\* (under its S/N field) in both or in neither.
ClassifiedAsIn(alone, i, sn) ==
    /\ SameEntry(_Tasks, alone.T, sn)
    /\ SameEntry(_RFQAs, alone.R, sn)
    /\ i \in IdsUnder(_unknowns, Item(i).Text1) <=> i \in IdsUnder(alone.U, sn)

\* C13: after getTasks the id of a record that is not ignored is listed in
\* the CompoundTaskIndex, under its whole S/N field and nowhere else, if and
\* only if the field splits on comma into more than one token; and every
\* token of such a record is classified as it would be if the record had
\* that token as its single serial number.
C13_CompoundIffSeveralTokens ==
    parsed =>
        \A i \in 1..TasksCount :
            Scanned(i) =>
                /\ i \in IdsUnder(_compoundTask, Item(i).Text1) <=> ~SingleSerial(i)
                /\ \A SN \in DOMAIN _compoundTask \ {Item(i).Text1} :
                        i \notin Elems(_compoundTask[SN])
                /\ ~SingleSerial(i) =>
                    \A sn \in TokensOf(i) :
                        ClassifiedAsIn(ScanOf(AsSingleSerial(i, sn)), i, sn)

\* A scanned project with a record "A,B" that is a task of "A" and of "B",
\* a record "A,B" that is neither task nor RFQA item, and a record with a
\* single serial number.
C13_Witness ==
    /\ parsed
    /\ \E i \in 1..TasksCount :
        /\ Qualifies(i) /\ Item(i).Text1 = "A,B"
        /\ i \in IdsUnder(_compoundTask, "A,B")
        /\ \A sn \in {"A", "B"} : sn \in DOMAIN _Tasks /\ i \in IdsOf(_Tasks[sn])
    /\ \E i \in 1..TasksCount :
        /\ Scanned(i) /\ SingleSerial(i)
        /\ i \notin IdsUnder(_compoundTask, "A,B")
    /\ \E i \in 1..TasksCount :
        /\ Scanned(i) /\ Item(i).Text1 = "A,B"
        /\ i \in IdsUnder(_unknowns, "A,B")
        /\ i \in IdsUnder(_compoundTask, "A,B")

\* C18: getTasks run again on unchanged records leaves the four dicts as
\* they are: in every state a run of getTasks has left, the dicts a further
\* run would store are the dicts in place.
C18_SecondRunSameDicts ==
    parsed => SameDicts(Dicts, ScanResult)

\* getTasks has run on a project with two records of one task, an RFQA
\* item and a compound record, and a further run would store the same.
C18_Witness ==
    /\ parsed
    /\ \E sn \in DOMAIN _Tasks : Len(_Tasks[sn].PercentWorkCompleteList) = 2
    /\ DOMAIN _RFQAs # {}
    /\ DOMAIN _compoundTask # {}
    /\ SameDicts(Dicts, ScanResult)

\* The last call gave the result r (a return value or an exception).
Gave(r) == ret.kind = r.kind /\ ret.val = r.val

\* C19: for a record t whose name or S/N is key, findSubRange(t) and
\* findRange(key, t) give the same result, whichever of the two is called;
\* and findRange(key) from row 1 gives what findSubRange gives for the
\* first record that carries key.
C19_SubRangeIsRangeFromRecord ==
    /\ ret.op = "findSubRange" =>
        \A key \in Keys :
            Matches(ret.args[1], key) => Gave(findRange(key, ret.args[1]))
    /\ ret.op = "findRange" =>
        /\ (ret.args[2] <= TasksCount /\ Matches(ret.args[2], ret.args[1])) =>
                Gave(findSubRange(ret.args[2]))
        /\ (ret.args[2] = 1 /\ MatchIds(ret.args[1], 1) # {}) =>
                Gave(findSubRange(Least(MatchIds(ret.args[1], 1))))

\* findRange was called from the second record that carries the key, a
\* record with a subtask, and returned the range of that record and not of
\* the first one.
C19_Witness ==
    /\ ret.op = "findRange"
    /\ ret.args[2] <= TasksCount
    /\ Matches(ret.args[2], ret.args[1])
    /\ MatchIds(ret.args[1], 1) \ {ret.args[2]} # {}
    /\ Least(MatchIds(ret.args[1], 1)) < ret.args[2]
    /\ ret.val = <<ret.args[2] + 1, ret.args[2] + 1>>
    /\ Gave(findSubRange(ret.args[2]))

\* The write-back operations.
WriteBackOps ==
    {"updateTask", "__setitem__", "updateRFQA", "updateProgressPerResource",
     "updateRFQADate"}

\* C14: a write-back (updateTask, __setitem__, updateRFQA,
\* updateProgressPerResource, updateRFQADate) leaves the four dicts as they
\* are and changes rows of the project only, never their number; and a
\* getTasks leaves in the four dicts the aggregation of the rows as they are
\* then, with no entry or id of the scan before.
C14_WriteBackLeavesCachesTillScan ==
    [][/\ ret'.op \in WriteBackOps =>
            /\ Dicts' = Dicts
            /\ parsed' = parsed
            /\ Len(Project') = Len(Project)
       /\ ret'.op = "getTasks" =>
            /\ Project' = Project
            /\ SameDicts(Dicts', ScanOf(Project'))]_vars

\* getTasks has run after a write-back gave the rows of the task "101" a
\* finish before their start: the task of the scan before is gone.
C14_Witness ==
    /\ ret.op = "getTasks"
    /\ \E i \in 1..TasksCount : Item(i).Text1 = "101" /\ Item(i).Finish = 5
    /\ "101" \notin DOMAIN _Tasks
    /\ "101" \in DOMAIN _unknowns

\* The dict the operation op looks key up in.
DictOf(op) == IF op = "updateRFQA" THEN _RFQAs ELSE _Tasks

\* The call op(key, values) gets as far as _update or _updateRFQA.
ReachesUpdate(op, key, values) ==
    /\ parsed
    /\ DictOf(op) # EmptyDict
    /\ values.type = "dict"
    /\ Len(key) > 2
    /\ IF Slice(key, 2) = "SN" THEN AfterSN(key) \in DOMAIN DictOf(op)
                               ELSE key \in DOMAIN DictOf(op)

\* Some entry of values names a field that is not supported.
HasUnsupported(values) ==
    \E n \in 1..Len(values.items) : values.items[n][1] \notin _msfields

\* C20: when the values that updateTask, __setitem__ or updateRFQA pass to
\* _update or _updateRFQA hold a field name that is not supported, the call
\* raises the unsupported-field error and has changed no field of any row,
\* whatever the order of the entries and the number of rows of the S/N.
C20_UnsupportedFieldChangesNothing ==
    [][(/\ ret'.op \in {"updateTask", "__setitem__", "updateRFQA"}
        /\ ReachesUpdate(ret'.op, ret'.args[1], WriteValues[ret'.args[2]])
        /\ HasUnsupported(WriteValues[ret'.args[2]])) =>
            /\ ret'.kind = "raise"
            /\ ret'.val = "KeyError"
            /\ ret'.error = "Unknown or unsupported MSProject field"
            /\ Project' = Project]_vars

----------------------------------------------------------------------------
(* The analysis tree: what buildAnalysisTree is to return                  *)

\* The last call was buildAnalysisTree and returned its two trees.
TreeBuilt == ret.op = "buildAnalysisTree" /\ ret.kind = "return"

\* The range of the root of the last call, as findRange gives it.
RootRange == findRange(ret.args[1], 1).val

\* Row i is an analysis item: a record whose S/N starts with "AN-" in
\* either case and that is not flagged "ignore".
AnalysisItem(i) ==
    /\ i \in 1..TasksCount
    /\ IsTask(i)
    /\ Len(Item(i).Text1) >= 3
    /\ SubSeq(Item(i).Text1, 1, 3) \in {"AN-", "an-", "An-", "aN-"}
    /\ Item(i).Text4 \notin {"ignore", "Ignore", "IGNORE"}

\* C15: the tree buildAnalysisTree returns has an entry, under the record's
\* S/N, for every analysis item among the rows from the one before the
\* start of the root's range to the end of the range, the last row of the
\* range included.
C15_EntryForEveryItemOfRange ==
    TreeBuilt =>
        \A i \in (RootRange[1] - 1)..RootRange[2] :
            AnalysisItem(i) => Item(i).Text1 \in DOMAIN ret.val.tree

\* The rows the loop of buildAnalysisTree visits: range(start - 1, end).
Visited == {i \in (RootRange[1] - 1)..(RootRange[2] - 1) : AnalysisItem(i)}

\* The record of the tree entry sn: the last visited analysis item with
\* that S/N (a later row writes the entry anew).
EntryRecord(sn) == Greatest({i \in Visited : Item(i).Text1 = sn})

\* C16: in the trees buildAnalysisTree returns, every category starts no
\* later and finishes no earlier than the record of each tree entry on its
\* member list, and than each leaf folded into it.
C16_CategoryCoversMembers ==
    TreeBuilt =>
        \A py \in DOMAIN ret.val.cats :
            /\ \A sn \in Elems(ret.val.cats[py].AN) \cap DOMAIN ret.val.tree :
                /\ ret.val.cats[py].start
                        <= proj2time(Item(EntryRecord(sn)).Start)
                /\ ret.val.cats[py].finish
                        >= proj2time(Item(EntryRecord(sn)).Finish)
            /\ \A sns \in DOMAIN ret.val.cats[py].subTasks :
                /\ ret.val.cats[py].start <= ret.val.cats[py].subTasks[sns].start
                /\ ret.val.cats[py].finish >= ret.val.cats[py].subTasks[sns].finish

\* Row j is a leaf to fold into the analysis item i: a row of the subrange
\* of i that has a S/N or a resource, is not flagged "ignore" and has no
\* subtasks.
LeafUnder(i, j) ==
    /\ j \in findRange(Item(i).Text1, i).val[1]..findRange(Item(i).Text1, i).val[2]
    /\ IsTask(j)
    /\ Item(j).Text1 # "" \/ Item(j).ResourceNames # ""
    /\ Item(j).Text4 \notin {"ignore", "Ignore", "IGNORE"}
    /\ findSubRange(j).val[1] = findSubRange(j).val[2]

\* The visited analysis items of category py.
ItemsOf(py) == {i \in Visited : Item(i).Text4 = py}

\* The leaf rows of the items of category py, each once.
LeavesOf(py) ==
    {j \in 1..TasksCount : \E i \in ItemsOf(py) : LeafUnder(i, j)}

\* The sum of f over the rows of S.
RECURSIVE SumOver(_, _)
SumOver(S, f) ==
    IF S = {} THEN 0
    ELSE f[Least(S)] + SumOver(S \ {Least(S)}, f)

\* C17: buildAnalysisTree folds the leaf rows and only them, each once:
\* called under a root whose analysis items have leaves, it returns trees
\* where every category holds one subtask per leaf row of its items, its
\* totalWork and actualWork are the sums over these rows and its percent
\* list has one value per row, also when an analysis item lies in the
\* subrange of another or two share a S/N.
C17_LeavesFoldedOnce ==
    (/\ ret.op = "buildAnalysisTree"
     /\ findRange(ret.args[1], 1).kind = "return"
     /\ \E i \in Visited : \E j \in 1..TasksCount : LeafUnder(i, j)) =>
        /\ ret.kind = "return"
        /\ \A py \in DOMAIN ret.val.cats :
            /\ Cardinality(DOMAIN ret.val.cats[py].subTasks)
                    = Cardinality(LeavesOf(py))
            /\ ret.val.cats[py].totalWork
                    = SumOver(LeavesOf(py), [j \in 1..TasksCount |-> Item(j).Work])
            /\ ret.val.cats[py].actualWork
                    = SumOver(LeavesOf(py), [j \in 1..TasksCount |-> Item(j).ActualWork])
            /\ Len(ret.val.cats[py].percentWorkComplete)
                    = Cardinality(LeavesOf(py))

----------------------------------------------------------------------------
(* The look-up of a task by its S/N                                        *)

\* Every entry of values names a supported field.
AllSupported(values) ==
    /\ values.type = "dict"
    /\ \A n \in 1..Len(values.items) : values.items[n][1] \in _msfields

\* The rows ids of the project rows hold every value of values.
Applied(rows, ids, values) ==
    \A i \in ids : \A n \in 1..Len(values.items) :
        rows[i][AttributeOf(values.items[n][1])] = values.items[n][2]

\* C21: after a getTasks that left at least one AggregatedTask, updateTask
\* and __setitem__ with a dict of supported fields and a key that is the
\* S/N of an AggregatedTask return True and leave every value in every row
\* of that task's id list, whatever the length of the S/N and also when it
\* starts with "SN"; they never raise for such a key.
C21_UpdateFindsEveryTask ==
    [][(/\ ret'.op \in {"updateTask", "__setitem__"}
        /\ parsed
        /\ ret'.args[1] \in DOMAIN _Tasks
        /\ AllSupported(WriteValues[ret'.args[2]])) =>
            /\ ret'.kind = "return"
            /\ ret'.val = "True"
            /\ Applied(Project', IdsOf(_Tasks[ret'.args[1]]),
                       WriteValues[ret'.args[2]])]_vars

(* The Tasks object of the MSProject instance *)

\* C22: after any calls of newSchedule and load and accesses to
\* MSProject.Tasks, the Tasks object that MSProject holds and returns is
\* over the project that MSProject.Project refers to, also after a load
\* that follows an access; and while MSProject.Project is None, that is
\* before a load or newSchedule has succeeded, an access to Tasks raises.
C22_TasksOverActiveProject ==
    /\ MSProject._Tasks # None => MSProject._Tasks = MSProject.Project
    /\ (/\ ret.op = "__getattr__"
        /\ ret.args = <<"Tasks">>
        /\ MSProject.Project = None) => ret.kind = "raise"

====
